---- MODULE Spec2Model ----
(***************************************************************************)
(* configure_me_codegen: the raw-to-validated specification transformation *)
(* of config.rs.  A specification document is deserialized into            *)
(* raw::Config (serde fills in the missing sections and fields), and       *)
(* raw::Config::validate maps Param::validate over the parameters and      *)
(* Switch::validate over the switches, stopping at the first error.        *)
(*                                                                         *)
(* Option<T> is a sequence of length at most one: None is <<>>, Some(x) is *)
(* <<x>>.  A String that the code inspects (an abbreviation) is a sequence *)
(* of Unicode code points; String::len counts UTF-8 bytes and String::pop  *)
(* removes one char.  Strings the code only moves around (names, types,    *)
(* default expressions, docs) are opaque TLA+ strings.                     *)
(***************************************************************************)
EXTENDS Integers, Sequences, FiniteSets, TLC

VARIABLES
    doc,     \* the specification document handed to serde
    raw,     \* Option<raw::Config>: the deserialized specification
    pc,      \* "deserialize", "validate" or "done"
    result,  \* Option<Result<Config, ValidationError>>: what Config::validate returned
    env,           \* Option<path>: the CARGO_MANIFEST_DIR environment variable
    fs,            \* the filesystem: what loading a manifest from each path finds
    reads,         \* the paths read from the filesystem so far, in order
    manifest_dir,  \* Option<PathBuf>: local of BuildScript::load_manifest
    load_pc,       \* "idle", "get_dir", "load" or "done"
    load_result    \* Option<Result<Manifest, Error>>: what load_manifest returned

cvars == <<doc, raw, pc, result>>

mvars == <<env, fs, reads, manifest_dir, load_pc, load_result>>

vars == <<cvars, mvars>>

(***************************************************************************)
(* Option and Result                                                       *)
(***************************************************************************)
None == <<>>

Some(x) == <<x>>

is_some(o) == o # <<>>

unwrap_or(o, d) == IF o = <<>> THEN d ELSE o[1]

Ok(v) == [tag |-> "Ok", val |-> v]

Err(e) == [tag |-> "Err", err |-> e]

ValidationErrorKind == {"MandatoryWithDefault", "InvertedWithAbbr", "InvertedWithCount", "InvalidAbbr"}

ValidationError(name, kind) == [name |-> name, kind |-> kind]

(***************************************************************************)
(* String as the code uses it on abbreviations                             *)
(***************************************************************************)
\* char::len_utf8 of a code point
len_utf8(c) == IF c < 128 THEN 1 ELSE IF c < 2048 THEN 2 ELSE IF c < 65536 THEN 3 ELSE 4

RECURSIVE StrLen(_)
\* String::len: the length in bytes
StrLen(s) == IF s = <<>> THEN 0 ELSE len_utf8(Head(s)) + StrLen(Tail(s))

\* String::pop: the string left behind and the char removed from its end, if any
StrPop(s) ==
    IF s = <<>> THEN [rest |-> <<>>, chr |-> None]
    ELSE [rest |-> SubSeq(s, 1, Len(s) - 1), chr |-> Some(s[Len(s)])]

(***************************************************************************)
(* Optionality and SwitchKind                                              *)
(***************************************************************************)
Mandatory == [tag |-> "Mandatory"]

Optional == [tag |-> "Optional"]

DefaultValue(expr) == [tag |-> "DefaultValue", expr |-> expr]

Inverted == [tag |-> "Inverted"]

Normal(abbr, count) == [tag |-> "Normal", abbr |-> abbr, count |-> count]

(***************************************************************************)
(* raw::Param::validate                                                    *)
(***************************************************************************)
\* A slip in the order of the match arms: the arm for a present default
\* expression is tried before the arm rejecting optional = false with a default.
ParamOptionality_DefaultArmFirst(self, dflt_optional) ==
    IF self.default # None THEN Ok(DefaultValue(self.default[1]))
    ELSE IF self.optional = Some(FALSE) THEN Ok(Mandatory)
    ELSE IF self.optional = Some(TRUE) THEN Ok(Optional)
    ELSE IF dflt_optional THEN Ok(Optional)
    ELSE Ok(Mandatory)

\* A slip that ignores defaults.optional: an unset optional without a default
\* expression is taken as Optional whatever the default-optional flag says.
ParamOptionality_IgnoresDefaultOptional(self, dflt_optional) ==
    IF self.optional = Some(FALSE) /\ self.default = None THEN Ok(Mandatory)
    ELSE IF self.optional = Some(FALSE) /\ self.default # None
        THEN Err(ValidationError(self.name, "MandatoryWithDefault"))
    ELSE IF self.optional = Some(TRUE) /\ self.default = None THEN Ok(Optional)
    ELSE IF self.default # None THEN Ok(DefaultValue(self.default[1]))
    ELSE Ok(Optional)

\* The match on (self.optional, default_optional, self.default); the arms are
\* tried in the order they are written.
ParamOptionality(self, dflt_optional) ==
    IF self.optional = Some(FALSE) /\ self.default = None THEN Ok(Mandatory)
    ELSE IF self.optional = Some(FALSE) /\ self.default # None
        THEN Err(ValidationError(self.name, "MandatoryWithDefault"))
    ELSE IF self.optional = Some(TRUE) /\ self.default = None THEN Ok(Optional)
    ELSE IF self.default # None THEN Ok(DefaultValue(self.default[1]))
    ELSE IF self.optional = None /\ dflt_optional /\ self.default = None THEN Ok(Optional)
    ELSE Ok(Mandatory)

\* A slip that keeps the popped char without looking at what is left of the string.
ParamAbbr_IgnoresRest(self) ==
    IF self.abbr = None THEN Ok(None)
    ELSE LET popped == StrPop(self.abbr[1]) IN
         IF popped.chr # None THEN Ok(Some(popped.chr[1]))
         ELSE Err(ValidationError(self.name, "InvalidAbbr"))

\* The abbreviation of a parameter: pop one char; anything left, or nothing
\* popped, is InvalidAbbr.
ParamAbbr(self) ==
    IF self.abbr = None THEN Ok(None)
    ELSE LET popped == StrPop(self.abbr[1]) IN
         IF StrLen(popped.rest) > 0 THEN Err(ValidationError(self.name, "InvalidAbbr"))
         ELSE IF popped.chr # None THEN Ok(Some(popped.chr[1]))
         ELSE Err(ValidationError(self.name, "InvalidAbbr"))

ParamValidate(self, dflt_optional, dflt_argument, dflt_env_var) ==
    LET optionality == ParamOptionality(self, dflt_optional) IN
    IF optionality.tag = "Err" THEN optionality
    ELSE LET abbr == ParamAbbr(self) IN
         IF abbr.tag = "Err" THEN abbr
         ELSE Ok([name         |-> self.name,
                  ty           |-> self.ty,
                  optionality  |-> optionality.val,
                  abbr         |-> abbr.val,
                  doc          |-> self.doc,
                  argument     |-> unwrap_or(self.argument, dflt_argument),
                  env_var      |-> unwrap_or(self.env_var, dflt_env_var),
                  convert_into |-> unwrap_or(self.convert_into, self.ty)])

(***************************************************************************)
(* raw::Switch::validate                                                   *)
(***************************************************************************)
\* 'a' <= chr <= 'z' or 'A' <= chr <= 'Z', on code points
IsAsciiLetter(chr) == (chr >= 97 /\ chr <= 122) \/ (chr >= 65 /\ chr <= 90)

\* A slip that accepts any ASCII char as a switch abbreviation, as the
\* parameter path does.
SwitchAbbr_AnyAscii(self) ==
    IF self.abbr = None THEN Ok(None)
    ELSE LET popped == StrPop(self.abbr[1]) IN
         IF popped.chr # None /\ StrLen(popped.rest) = 0 /\ popped.chr[1] < 128
         THEN Ok(Some(popped.chr[1]))
         ELSE Err(ValidationError(self.name, "InvalidAbbr"))

\* The abbreviation of a non-inverted switch: exactly one char, an ASCII letter.
SwitchAbbr(self) ==
    IF self.abbr = None THEN Ok(None)
    ELSE LET popped == StrPop(self.abbr[1]) IN
         IF popped.chr # None /\ StrLen(popped.rest) = 0 /\ IsAsciiLetter(popped.chr[1])
         THEN Ok(Some(popped.chr[1]))
         ELSE Err(ValidationError(self.name, "InvalidAbbr"))

\* A slip in the order of the match arms: count = true is looked at before the
\* abbreviation.
SwitchKindOf_CountArmFirst(self) ==
    IF self.default = Some(TRUE) /\ self.count = Some(TRUE)
        THEN Err(ValidationError(self.name, "InvertedWithCount"))
    ELSE IF self.abbr # None /\ self.default = Some(TRUE)
        THEN Err(ValidationError(self.name, "InvertedWithAbbr"))
    ELSE IF self.abbr = None /\ self.default = Some(TRUE)
            /\ (self.count = None \/ self.count = Some(FALSE))
        THEN Ok(Inverted)
    ELSE LET abbr == SwitchAbbr(self) IN
         IF abbr.tag = "Err" THEN abbr
         ELSE Ok(Normal(abbr.val, unwrap_or(self.count, FALSE)))

\* A slip that forgets the (None, Some(true), Some(false)) pattern: an inverted
\* switch with count = false falls through to the Normal arm.
SwitchKindOf_CountFalseFallsThrough(self) ==
    IF self.abbr # None /\ self.default = Some(TRUE)
        THEN Err(ValidationError(self.name, "InvertedWithAbbr"))
    ELSE IF self.default = Some(TRUE) /\ self.count = Some(TRUE)
        THEN Err(ValidationError(self.name, "InvertedWithCount"))
    ELSE IF self.abbr = None /\ self.default = Some(TRUE) /\ self.count = None
        THEN Ok(Inverted)
    ELSE LET abbr == SwitchAbbr(self) IN
         IF abbr.tag = "Err" THEN abbr
         ELSE Ok(Normal(abbr.val, unwrap_or(self.count, FALSE)))

\* The match on (self.abbr, self.default, self.count); the arms are tried in
\* the order they are written.
SwitchKindOf(self) ==
    IF self.abbr # None /\ self.default = Some(TRUE)
        THEN Err(ValidationError(self.name, "InvertedWithAbbr"))
    ELSE IF self.default = Some(TRUE) /\ self.count = Some(TRUE)
        THEN Err(ValidationError(self.name, "InvertedWithCount"))
    ELSE IF self.abbr = None /\ self.default = Some(TRUE)
            /\ (self.count = None \/ self.count = Some(FALSE))
        THEN Ok(Inverted)
    ELSE LET abbr == SwitchAbbr(self) IN
         IF abbr.tag = "Err" THEN abbr
         ELSE Ok(Normal(abbr.val, unwrap_or(self.count, FALSE)))

SwitchValidate(self, dflt_env_var) ==
    LET kind == SwitchKindOf(self) IN
    IF kind.tag = "Err" THEN kind
    ELSE Ok([name    |-> self.name,
             kind    |-> kind.val,
             doc     |-> self.doc,
             env_var |-> unwrap_or(self.env_var, dflt_env_var)])

(***************************************************************************)
(* raw::Config::validate                                                   *)
(***************************************************************************)
\* A slip that reads only the prefix and ignores defaults.env_vars.
DefaultEnvVar_PrefixOnly(self) == is_some(self.general.env_prefix)

\* self.defaults.env_vars.unwrap_or(self.general.env_prefix.is_some())
DefaultEnvVar(self) == unwrap_or(self.defaults.env_vars, is_some(self.general.env_prefix))

RECURSIVE Collect_LastError(_)
\* An error-accumulating collect that goes through every entry and reports the
\* error found last.
Collect_LastError(results) ==
    IF results = <<>> THEN Ok(<<>>)
    ELSE LET rest == Collect_LastError(Tail(results)) IN
         IF rest.tag = "Err" THEN rest
         ELSE IF Head(results).tag = "Err" THEN Head(results)
         ELSE Ok(<<Head(results).val>> \o rest.val)

RECURSIVE Collect_SkipsErrors(_)
\* A lenient collect that leaves the failing entries out (filter_map(Result::ok)).
Collect_SkipsErrors(results) ==
    IF results = <<>> THEN Ok(<<>>)
    ELSE LET rest == Collect_SkipsErrors(Tail(results)) IN
         IF Head(results).tag = "Err" THEN rest
         ELSE Ok(<<Head(results).val>> \o rest.val)

RECURSIVE Collect(_)
\* .collect::<Result<Vec<_>, _>>(): the values in order, or the first error
Collect(results) ==
    IF results = <<>> THEN Ok(<<>>)
    ELSE IF Head(results).tag = "Err" THEN Head(results)
    ELSE LET rest == Collect(Tail(results)) IN
         IF rest.tag = "Err" THEN rest
         ELSE Ok(<<Head(results).val>> \o rest.val)

ConfigValidate(self) ==
    LET dflt_optional == self.defaults.optional
        dflt_argument == self.defaults.args
        dflt_env_var  == DefaultEnvVar(self)
        ps == Collect([i \in 1..Len(self.params) |->
                  ParamValidate(self.params[i], dflt_optional, dflt_argument, dflt_env_var)])
    IN  IF ps.tag = "Err" THEN ps
        ELSE LET ss == Collect([i \in 1..Len(self.switches) |->
                           SwitchValidate(self.switches[i], dflt_env_var)])
             IN  IF ss.tag = "Err" THEN ss
                 ELSE Ok([general  |-> self.general,
                          defaults |-> self.defaults,
                          params   |-> ps.val,
                          switches |-> ss.val])

(***************************************************************************)
(* Deserialization: what serde fills in for missing sections and fields    *)
(***************************************************************************)
make_true == TRUE

\* What #[derive(Default)] would give: false for both booleans.
DefaultsDefault_Derived == [args |-> FALSE, env_vars |-> None, optional |-> FALSE]

\* impl Default for Defaults
DefaultsDefault == [args |-> TRUE, env_vars |-> None, optional |-> TRUE]

\* #[derive(Default)] on General: every field None
GeneralDefault == [name |-> None, summary |-> None, doc |-> None, env_prefix |-> None]

\* A [defaults] section: each field is present or not.  A missing section is
\* Defaults::default(); a missing field is its serde default.
DeserializeDefaults(section) ==
    IF section = None THEN DefaultsDefault
    ELSE [args     |-> unwrap_or(section[1].args, make_true),
          env_vars |-> section[1].env_vars,
          optional |-> unwrap_or(section[1].optional, make_true)]

\* A [general] section, or General::default() when it is missing
DeserializeGeneral(section) == IF section = None THEN GeneralDefault ELSE section[1]

DeserializeConfig(d) ==
    [params   |-> d.params,
     switches |-> d.switches,
     general  |-> DeserializeGeneral(d.general),
     defaults |-> DeserializeDefaults(d.defaults)]

(***************************************************************************)
(* The specification documents the model is run on                         *)
(***************************************************************************)
MaxAbbrLen == 2

MaxParams == 2

MaxSwitches == 2

OptBool == {None, Some(TRUE), Some(FALSE)}

\* '3' '@' 'A' 'Z' '[' '`' 'a' 'p' 'z' '{', then chars of 2, 3 and 4 UTF-8 bytes
Chars == {51, 64, 65, 90, 91, 96, 97, 112, 122, 123, 233, 8364, 128512}

AbbrStrings == UNION {[1..n -> Chars] : n \in 0..MaxAbbrLen}

OptAbbr == {None} \cup {Some(s) : s \in AbbrStrings}

SeqsUpTo(S, n) == UNION {[1..k -> S] : k \in 0..n}

NoDefaults == [args |-> None, env_vars |-> None, optional |-> None]

\* One parameter with every abbreviation string, optional flag and default
\* expression, under each value of defaults.optional.
WideParams ==
    [name : {"port"}, abbr : OptAbbr, ty : {"u16"}, optional : OptBool,
     default : {None, Some("8080"), Some("default_port()")}, doc : {None},
     argument : {None}, env_var : {None}, convert_into : {None}]

WideParamDocs ==
    [params : {<<p>> : p \in WideParams}, switches : {<<>>}, general : {None},
     defaults : {None} \cup {Some([NoDefaults EXCEPT !.optional = o]) : o \in OptBool}]

\* One switch with every abbreviation string, default and count.
WideSwitches ==
    [name : {"verbose"}, abbr : OptAbbr, default : OptBool, doc : {None},
     env_var : {None}, count : OptBool]

WideSwitchDocs ==
    [params : {<<>>}, switches : {<<s>> : s \in WideSwitches}, general : {None},
     defaults : {None}]

\* One parameter and one switch with every per-entry override, under every
\* [defaults] section and with and without [general] and its env_prefix.
OverrideParams ==
    [name : {"port"}, abbr : {None}, ty : {"u16"}, optional : OptBool,
     default : {None, Some("8080")}, doc : {None},
     argument : OptBool, env_var : OptBool, convert_into : {None, Some("u32")}]

OverrideSwitches ==
    [name : {"verbose"}, abbr : {None}, default : {None, Some(TRUE)}, doc : {None},
     env_var : OptBool, count : {None}]

GeneralSections ==
    {None, Some(GeneralDefault), Some([GeneralDefault EXCEPT !.env_prefix = Some("APP")]),
     Some([GeneralDefault EXCEPT !.name = Some("app"), !.env_prefix = Some("APP")])}

DefaultsSections ==
    {None} \cup {Some(d) : d \in [args : OptBool, env_vars : OptBool, optional : OptBool]}

OverrideDocs ==
    [params : {<<p>> : p \in OverrideParams}, switches : {<<s>> : s \in OverrideSwitches},
     general : GeneralSections, defaults : DefaultsSections]

\* Several entries: per name a sound entry and one entry for each error the
\* entry's validate can signal.
PlainParam(n) ==
    [name |-> n, abbr |-> None, ty |-> "u16", optional |-> None, default |-> None,
     doc |-> None, argument |-> None, env_var |-> None, convert_into |-> None]

SmallParams ==
    UNION {{PlainParam(n),
            [PlainParam(n) EXCEPT !.abbr = Some(<<112>>), !.default = Some("8080")],
            [PlainParam(n) EXCEPT !.optional = Some(FALSE), !.default = Some("8080")],
            [PlainParam(n) EXCEPT !.abbr = Some(<<112, 112>>)]} : n \in {"port", "bind_addr"}}

PlainSwitch(n) ==
    [name |-> n, abbr |-> None, default |-> None, doc |-> None, env_var |-> None,
     count |-> None]

SmallSwitches ==
    UNION {{[PlainSwitch(n) EXCEPT !.abbr = Some(<<112>>), !.count = Some(TRUE)],
            [PlainSwitch(n) EXCEPT !.default = Some(TRUE)],
            [PlainSwitch(n) EXCEPT !.abbr = Some(<<112>>), !.default = Some(TRUE)],
            [PlainSwitch(n) EXCEPT !.default = Some(TRUE), !.count = Some(TRUE)],
            [PlainSwitch(n) EXCEPT !.abbr = Some(<<51>>)]} : n \in {"quiet", "verbose"}}

ManyDocs ==
    [params : SeqsUpTo(SmallParams, MaxParams), switches : SeqsUpTo(SmallSwitches, MaxSwitches),
     general : {None}, defaults : {None}]

Documents == WideParamDocs \cup WideSwitchDocs \cup OverrideDocs \cup ManyDocs

(***************************************************************************)
(* The run: deserialize the document, then validate it                     *)
(***************************************************************************)
Init ==
    /\ doc \in Documents
    /\ raw = None
    /\ pc = "deserialize"
    /\ result = None
    /\ env = None
    /\ fs = <<>>
    /\ reads = <<>>
    /\ manifest_dir = None
    /\ load_pc = "idle"
    /\ load_result = None

Deserialize ==
    /\ pc = "deserialize"
    /\ raw' = Some(DeserializeConfig(doc))
    /\ pc' = "validate"
    /\ UNCHANGED <<doc, result, mvars>>

Validate ==
    /\ pc = "validate"
    /\ result' = Some(ConfigValidate(raw[1]))
    /\ pc' = "done"
    /\ UNCHANGED <<doc, raw, mvars>>

Next == Deserialize \/ Validate

Spec == Init /\ [][Next]_vars

(***************************************************************************)
(* manifest.rs: BuildScript::load_manifest                                 *)
(*                                                                         *)
(* A path is the sequence of its components.  CARGO_MANIFEST_DIR, an       *)
(* OsString, becomes a PathBuf by wrapping the same bytes, so the variable *)
(* holds a path.  The filesystem says, for each path a manifest may be at, *)
(* whether the file is there and whether it parses; every other path has   *)
(* no file.                                                                *)
(***************************************************************************)
MaxDirDepth == 2

DirNames == {"proj", "sub"}

Dirs == SeqsUpTo(DirNames, MaxDirDepth)

\* PathBuf::join with a relative component
Join(path, component) == Append(path, component)

FileContents ==
    {[tag |-> "absent"], [tag |-> "malformed"],
     [tag |-> "manifest", package |-> "app"], [tag |-> "manifest", package |-> "tool"]}

\* the manifests of the working directory and of the directories one level down
FsPaths == {Join(d, "Cargo.toml") : d \in SeqsUpTo(DirNames, 1)}

Filesystems == [FsPaths -> FileContents]

\* Manifest::from_path_with_metadata: the manifest, or a cargo_toml::Error
from_path_with_metadata(files, path) ==
    IF path \notin DOMAIN files THEN Err("Io")
    ELSE IF files[path].tag = "absent" THEN Err("Io")
    ELSE IF files[path].tag = "malformed" THEN Err("Parse")
    ELSE Ok([package |-> files[path].package])

LoadError(path, error) == [path |-> path, error |-> error]

\* impl LoadManifest for PathBuf: a failure is wrapped with the path read
PathBufLoadManifest(files, self) ==
    LET loaded == from_path_with_metadata(files, self) IN
    IF loaded.tag = "Err" THEN Err(LoadError(self, loaded.err)) ELSE loaded

MissingManifestDirEnvVar == [data |-> [tag |-> "MissingManifestDirEnvVar"]]

\* Into<Error> for LoadError: the Load error, holding the LoadError as it is
ErrorFromLoadError(e) == [data |-> [tag |-> "Load", load |-> e]]

\* A slip that falls back to the working directory when the variable is not set.
get_dir_DefaultsToCurrentDir(variable) == Ok(unwrap_or(variable, <<>>))

\* std::env::var_os("CARGO_MANIFEST_DIR").ok_or(..).map(Into::into)
get_dir(variable) ==
    IF variable = None THEN Err(MissingManifestDirEnvVar) ELSE Ok(variable[1])

InitManifest ==
    /\ doc = None
    /\ raw = None
    /\ pc = "idle"
    /\ result = None
    /\ env \in {None} \cup {Some(d) : d \in Dirs}
    /\ fs \in Filesystems
    /\ reads = <<>>
    /\ manifest_dir = None
    /\ load_pc = "get_dir"
    /\ load_result = None

\* let manifest_dir = get_dir()?;
GetDir ==
    /\ load_pc = "get_dir"
    /\ LET dir == get_dir(env) IN
       IF dir.tag = "Err"
       THEN /\ load_result' = Some(dir)
            /\ load_pc' = "done"
            /\ UNCHANGED manifest_dir
       ELSE /\ manifest_dir' = Some(dir.val)
            /\ load_pc' = "load"
            /\ UNCHANGED load_result
    /\ UNCHANGED <<cvars, env, fs, reads>>

\* manifest_dir.join("Cargo.toml").load_manifest().map_err(Into::into)
LoadManifestFile ==
    /\ load_pc = "load"
    /\ LET manifest_file == Join(manifest_dir[1], "Cargo.toml")
           loaded == PathBufLoadManifest(fs, manifest_file)
       IN  /\ reads' = Append(reads, manifest_file)
           /\ load_result' = Some(IF loaded.tag = "Err"
                                  THEN Err(ErrorFromLoadError(loaded.err))
                                  ELSE loaded)
    /\ load_pc' = "done"
    /\ UNCHANGED <<cvars, env, fs, manifest_dir>>

NextManifest == GetDir \/ LoadManifestFile

SpecManifest == InitManifest /\ [][NextManifest]_vars

(***************************************************************************)
(* What the specification says of an entry, stated on the raw entry alone  *)
(***************************************************************************)
Done == pc = "done"

RawParams == raw[1].params

RawSwitches == raw[1].switches

Returned == result[1]

\* optional = false together with a default expression
MandatoryAndDefault(p) == p.optional = Some(FALSE) /\ p.default # None

\* an abbreviation string of exactly one char
OneChar(abbr) == abbr # None /\ Len(abbr[1]) = 1

\* an abbreviation string of exactly one char, a-z or A-Z
OneLetter(abbr) == OneChar(abbr) /\ abbr[1][1] \in (65..90) \cup (97..122)

ParamOffends(p) == MandatoryAndDefault(p) \/ (p.abbr # None /\ ~OneChar(p.abbr))

SwitchInverts(s) == s.default = Some(TRUE)

SwitchOffends(s) ==
    \/ SwitchInverts(s) /\ (s.abbr # None \/ s.count = Some(TRUE))
    \/ ~SwitchInverts(s) /\ s.abbr # None /\ ~OneLetter(s.abbr)

\* the i-th parameter is reached: no parameter before it offends
ParamReached(i) == i \in DOMAIN RawParams /\ \A j \in 1..(i - 1) : ~ParamOffends(RawParams[j])

\* the i-th switch is reached: no parameter and no switch before it offends
SwitchReached(i) ==
    /\ i \in DOMAIN RawSwitches
    /\ \A j \in DOMAIN RawParams : ~ParamOffends(RawParams[j])
    /\ \A j \in 1..(i - 1) : ~SwitchOffends(RawSwitches[j])

\* the document holds one parameter and nothing else
LoneParam == Len(RawParams) = 1 /\ RawSwitches = <<>>

\* the document holds one switch and nothing else
LoneSwitch == Len(RawSwitches) = 1 /\ RawParams = <<>>

FailsWith(name, kind) == Returned = Err(ValidationError(name, kind))

Succeeds ==
    /\ Returned.tag = "Ok"
    /\ Len(Returned.val.params) = Len(RawParams)
    /\ Len(Returned.val.switches) = Len(RawSwitches)

\* C1: every parameter with optional = false and a default expression that
\* validation reaches makes it fail with MandatoryWithDefault and the
\* parameter's name, whatever defaults.optional, the abbreviation and the other
\* fields are.
C1_MandatoryWithDefault ==
    Done => \A i \in DOMAIN RawParams :
        ParamReached(i) /\ MandatoryAndDefault(RawParams[i])
            => FailsWith(RawParams[i].name, "MandatoryWithDefault")

\* C1 case: a mandatory parameter with a default and a malformed abbreviation,
\* under defaults.optional = true, was rejected as MandatoryWithDefault.
C1_Witness ==
    /\ Done
    /\ LoneParam
    /\ MandatoryAndDefault(RawParams[1])
    /\ RawParams[1].abbr = Some(<<112, 112>>)
    /\ raw[1].defaults.optional
    /\ FailsWith(RawParams[1].name, "MandatoryWithDefault")

\* the six-case table, read off the three signals
TableOptionality(optional, dflt_optional, default) ==
    CASE optional = Some(FALSE) /\ default = None -> Mandatory
      [] optional = Some(TRUE) /\ default = None -> Optional
      [] optional # Some(FALSE) /\ default # None -> DefaultValue(default[1])
      [] optional = None /\ default = None /\ dflt_optional -> Optional
      [] optional = None /\ default = None /\ ~dflt_optional -> Mandatory

\* C2: in a validated model every parameter's optionality is the one the
\* six-case table gives for its optional field, defaults.optional and its default
\* expression, and no parameter of it has optional = false with a default; a
\* lone parameter outside that error case and with a sound abbreviation validates.
C2_OptionalityTable ==
    Done =>
        /\ Returned.tag = "Ok" => \A i \in DOMAIN RawParams \cap DOMAIN Returned.val.params :
              /\ ~MandatoryAndDefault(RawParams[i])
              /\ Returned.val.params[i].optionality =
                    TableOptionality(RawParams[i].optional, raw[1].defaults.optional,
                                     RawParams[i].default)
        /\ LoneParam /\ ~ParamOffends(RawParams[1]) => Succeeds

\* C2 case: optional unset and no default under defaults.optional = false came
\* out Mandatory.
C2_Witness ==
    /\ Done
    /\ LoneParam
    /\ RawParams[1].optional = None
    /\ RawParams[1].default = None
    /\ ~raw[1].defaults.optional
    /\ Succeeds
    /\ Returned.val.params[1].optionality = Mandatory

\* C3 as first stated: a lone parameter with an abbreviation string validates
\* to that char when the string has one char, and fails with InvalidAbbr when it
\* has none or several, whatever its other fields are.
C3_AsStated ==
    Done /\ LoneParam /\ RawParams[1].abbr # None =>
        IF OneChar(RawParams[1].abbr)
        THEN Succeeds /\ Returned.val.params[1].abbr = Some(RawParams[1].abbr[1][1])
        ELSE FailsWith(RawParams[1].name, "InvalidAbbr")

\* C3: for a parameter that is not rejected as MandatoryWithDefault, an
\* abbreviation string of one char (any char, of any UTF-8 width) resolves to
\* that char, and a string of no char or of several fails with InvalidAbbr and
\* the parameter's name.
C3_ParamAbbr ==
    Done =>
        /\ \A i \in DOMAIN RawParams :
              /\ ParamReached(i)
              /\ ~MandatoryAndDefault(RawParams[i])
              /\ RawParams[i].abbr # None
              /\ ~OneChar(RawParams[i].abbr)
              => FailsWith(RawParams[i].name, "InvalidAbbr")
        /\ Returned.tag = "Ok" => \A i \in DOMAIN RawParams \cap DOMAIN Returned.val.params :
              Returned.val.params[i].abbr =
                  IF RawParams[i].abbr = None THEN None
                  ELSE Some(RawParams[i].abbr[1][Len(RawParams[i].abbr[1])])
        /\ Returned.tag = "Ok" => \A i \in DOMAIN RawParams :
              RawParams[i].abbr # None => OneChar(RawParams[i].abbr)
        /\ /\ LoneParam
           /\ OneChar(RawParams[1].abbr)
           /\ ~MandatoryAndDefault(RawParams[1])
           => Succeeds

\* C3 case: a one-char abbreviation that is not a letter and takes two UTF-8
\* bytes was accepted.
C3_Witness ==
    /\ Done
    /\ LoneParam
    /\ RawParams[1].abbr = Some(<<233>>)
    /\ Succeeds
    /\ Returned.val.params[1].abbr = Some(233)

\* C4: every switch with default = true and an abbreviation string that
\* validation reaches makes it fail with InvertedWithAbbr and the switch's name,
\* whatever count is and however the abbreviation reads.
C4_InvertedWithAbbr ==
    Done => \A i \in DOMAIN RawSwitches :
        SwitchReached(i) /\ SwitchInverts(RawSwitches[i]) /\ RawSwitches[i].abbr # None
            => FailsWith(RawSwitches[i].name, "InvertedWithAbbr")

\* C4 case: an inverted switch with count = true and a malformed abbreviation
\* was rejected as InvertedWithAbbr.
C4_Witness ==
    /\ Done
    /\ LoneSwitch
    /\ SwitchInverts(RawSwitches[1])
    /\ RawSwitches[1].count = Some(TRUE)
    /\ RawSwitches[1].abbr = Some(<<51, 51>>)
    /\ FailsWith(RawSwitches[1].name, "InvertedWithAbbr")

\* C5: a switch with default = true and no abbreviation fails with
\* InvertedWithCount and its name when count = true and validates to Inverted
\* otherwise; in a validated model a switch is Inverted exactly when its raw
\* default was true, and then it had no abbreviation and did not count.
C5_Inverted ==
    Done =>
        /\ \A i \in DOMAIN RawSwitches :
              /\ SwitchReached(i)
              /\ SwitchInverts(RawSwitches[i])
              /\ RawSwitches[i].abbr = None
              /\ RawSwitches[i].count = Some(TRUE)
              => FailsWith(RawSwitches[i].name, "InvertedWithCount")
        /\ Returned.tag = "Ok" => \A i \in DOMAIN RawSwitches \cap DOMAIN Returned.val.switches :
              /\ Returned.val.switches[i].kind = Inverted <=> SwitchInverts(RawSwitches[i])
              /\ SwitchInverts(RawSwitches[i]) =>
                    RawSwitches[i].abbr = None /\ RawSwitches[i].count # Some(TRUE)
        /\ /\ LoneSwitch
           /\ SwitchInverts(RawSwitches[1])
           /\ RawSwitches[1].abbr = None
           /\ RawSwitches[1].count # Some(TRUE)
           => Succeeds

\* C5 case: default = true with count = false and no abbreviation came out
\* Inverted.
C5_Witness ==
    /\ Done
    /\ LoneSwitch
    /\ SwitchInverts(RawSwitches[1])
    /\ RawSwitches[1].abbr = None
    /\ RawSwitches[1].count = Some(FALSE)
    /\ Succeeds
    /\ Returned.val.switches[1].kind = Inverted

\* C6: a switch whose default is unset or false validates to Normal with its
\* count (false when unset) and its abbreviation (none, or the single ASCII
\* letter), and fails with InvalidAbbr and its name exactly when an abbreviation
\* string is present that is not a single ASCII letter.
C6_Normal ==
    Done =>
        /\ \A i \in DOMAIN RawSwitches :
              /\ SwitchReached(i)
              /\ ~SwitchInverts(RawSwitches[i])
              /\ RawSwitches[i].abbr # None
              /\ ~OneLetter(RawSwitches[i].abbr)
              => FailsWith(RawSwitches[i].name, "InvalidAbbr")
        /\ Returned.tag = "Ok" => \A i \in DOMAIN RawSwitches \cap DOMAIN Returned.val.switches :
              ~SwitchInverts(RawSwitches[i]) =>
                  /\ RawSwitches[i].abbr # None => OneLetter(RawSwitches[i].abbr)
                  /\ Returned.val.switches[i].kind =
                        Normal(IF RawSwitches[i].abbr = None THEN None
                               ELSE Some(RawSwitches[i].abbr[1][1]),
                               IF RawSwitches[i].count = None THEN FALSE
                               ELSE RawSwitches[i].count[1])
        /\ /\ LoneSwitch
           /\ ~SwitchInverts(RawSwitches[1])
           /\ RawSwitches[1].abbr = None \/ OneLetter(RawSwitches[1].abbr)
           => Succeeds

\* C6 case: the abbreviation "3" on a switch with default = false was rejected
\* as InvalidAbbr.
C6_Witness ==
    /\ Done
    /\ LoneSwitch
    /\ RawSwitches[1].default = Some(FALSE)
    /\ RawSwitches[1].abbr = Some(<<51>>)
    /\ FailsWith(RawSwitches[1].name, "InvalidAbbr")

\* the env_var flag an entry is to get: its own when set, else
\* defaults.env_vars when set, else whether general.env_prefix is there
ExpectedEnvVar(entry) ==
    IF entry.env_var # None THEN entry.env_var[1]
    ELSE IF raw[1].defaults.env_vars # None THEN raw[1].defaults.env_vars[1]
    ELSE raw[1].general.env_prefix # None

\* C7: in a validated model the env_var flag of every parameter and of every
\* switch is the entry's own env_var when set, else defaults.env_vars when set,
\* else whether general.env_prefix is present.
C7_EnvVar ==
    Done /\ Returned.tag = "Ok" =>
        /\ \A i \in DOMAIN RawParams \cap DOMAIN Returned.val.params :
              Returned.val.params[i].env_var = ExpectedEnvVar(RawParams[i])
        /\ \A i \in DOMAIN RawSwitches \cap DOMAIN Returned.val.switches :
              Returned.val.switches[i].env_var = ExpectedEnvVar(RawSwitches[i])

\* C7 case: with an env_prefix and defaults.env_vars = false, a parameter
\* without an override got env_var = false and a switch overriding it with true
\* got env_var = true.
C7_Witness ==
    /\ Done
    /\ Succeeds
    /\ raw[1].general.env_prefix = Some("APP")
    /\ raw[1].defaults.env_vars = Some(FALSE)
    /\ Len(RawParams) = 1
    /\ Len(RawSwitches) = 1
    /\ RawParams[1].env_var = None
    /\ RawSwitches[1].env_var = Some(TRUE)
    /\ ~Returned.val.params[1].env_var
    /\ Returned.val.switches[1].env_var

\* the error the specification names for an offending entry
ParamErrorKind(p) == IF MandatoryAndDefault(p) THEN "MandatoryWithDefault" ELSE "InvalidAbbr"

SwitchErrorKind(s) ==
    IF SwitchInverts(s) /\ s.abbr # None THEN "InvertedWithAbbr"
    ELSE IF SwitchInverts(s) /\ s.count = Some(TRUE) THEN "InvertedWithCount"
    ELSE "InvalidAbbr"

OffendingParams == {i \in DOMAIN RawParams : ParamOffends(RawParams[i])}

OffendingSwitches == {i \in DOMAIN RawSwitches : SwitchOffends(RawSwitches[i])}

Least(S) == CHOOSE i \in S : \A j \in S : i <= j

\* C8: the error returned is that of the first offending entry, the parameters
\* in declaration order coming before the switches in declaration order; with
\* no offending entry there is no error.
C8_FirstError ==
    Done =>
        IF OffendingParams # {}
        THEN FailsWith(RawParams[Least(OffendingParams)].name,
                       ParamErrorKind(RawParams[Least(OffendingParams)]))
        ELSE IF OffendingSwitches # {}
        THEN FailsWith(RawSwitches[Least(OffendingSwitches)].name,
                       SwitchErrorKind(RawSwitches[Least(OffendingSwitches)]))
        ELSE Returned.tag = "Ok"

\* C8 case: two offending parameters of different names and errors, followed by
\* an offending switch; the first parameter's error was returned.
C8_Witness ==
    /\ Done
    /\ Len(RawParams) = 2
    /\ OffendingParams = {1, 2}
    /\ OffendingSwitches # {}
    /\ RawParams[1].name # RawParams[2].name
    /\ ParamErrorKind(RawParams[1]) = "InvalidAbbr"
    /\ ParamErrorKind(RawParams[2]) = "MandatoryWithDefault"
    /\ FailsWith(RawParams[1].name, "InvalidAbbr")

\* C9: a model is returned exactly when no parameter and no switch offends; it
\* then holds one parameter per raw parameter and one switch per raw switch, in
\* the same order and under the same names, with general and defaults as
\* deserialized; otherwise an error is returned and nothing else.
C9_AllOrNothing ==
    Done =>
        /\ Returned.tag \in {"Ok", "Err"}
        /\ Returned.tag = "Ok" <=> OffendingParams = {} /\ OffendingSwitches = {}
        /\ Returned.tag = "Ok" =>
              /\ Len(Returned.val.params) = Len(RawParams)
              /\ Len(Returned.val.switches) = Len(RawSwitches)
              /\ \A i \in DOMAIN RawParams : Returned.val.params[i].name = RawParams[i].name
              /\ \A i \in DOMAIN RawSwitches : Returned.val.switches[i].name = RawSwitches[i].name
              /\ Returned.val.general = raw[1].general
              /\ Returned.val.defaults = raw[1].defaults
        /\ Returned.tag = "Err" => DOMAIN Returned = {"tag", "err"}

\* C9 case: two parameters and two switches of different names, none offending,
\* came out as a model.
C9_Witness ==
    /\ Done
    /\ Len(RawParams) = 2
    /\ Len(RawSwitches) = 2
    /\ RawParams[1].name # RawParams[2].name
    /\ RawSwitches[1].name # RawSwitches[2].name
    /\ Succeeds

\* the [defaults] section is missing or does not mention the field
DefaultsOmit(field) == doc.defaults = None \/ doc.defaults[1][field] = None

\* C10: a field the [defaults] section omits, or every field when the section
\* is missing, falls back to optional = true, args = true, env_vars unset; so in
\* a validated model a parameter with neither optional nor default is Optional
\* and a parameter without argument has argument = true.
C10_DefaultsFallback ==
    Done =>
        /\ DefaultsOmit("optional") => raw[1].defaults.optional = TRUE
        /\ DefaultsOmit("args") => raw[1].defaults.args = TRUE
        /\ DefaultsOmit("env_vars") => raw[1].defaults.env_vars = None
        /\ Returned.tag = "Ok" => \A i \in DOMAIN RawParams \cap DOMAIN Returned.val.params :
              /\ /\ DefaultsOmit("optional")
                 /\ RawParams[i].optional = None
                 /\ RawParams[i].default = None
                 => Returned.val.params[i].optionality = Optional
              /\ DefaultsOmit("args") /\ RawParams[i].argument = None
                 => Returned.val.params[i].argument = TRUE

\* C10 case: without a [defaults] section a parameter setting none of optional,
\* default and argument came out Optional with argument = true.
C10_Witness ==
    /\ Done
    /\ doc.defaults = None
    /\ Succeeds
    /\ Len(RawParams) = 1
    /\ RawParams[1].optional = None
    /\ RawParams[1].default = None
    /\ RawParams[1].argument = None
    /\ Returned.val.params[1].optionality = Optional
    /\ Returned.val.params[1].argument

\* the manifest file load_manifest is to read when the variable is set
AttemptedPath == env[1] \o <<"Cargo.toml">>

\* the file at that path cannot be loaded: it is not there or does not parse
ReadFails ==
    \/ AttemptedPath \notin DOMAIN fs
    \/ fs[AttemptedPath].tag \in {"absent", "malformed"}

\* C11: when CARGO_MANIFEST_DIR is absent, BuildScript::load_manifest fails with
\* MissingManifestDirEnvVar and reads nothing from the filesystem; when it is
\* present, exactly <dir>/Cargo.toml is read, a failure of that read is a Load
\* error holding that path and the cause, never MissingManifestDirEnvVar, and a
\* successful read returns the manifest found there.
C11_BuildScriptLoad ==
    load_pc = "done" =>
        IF env = None
        THEN load_result = Some(Err(MissingManifestDirEnvVar)) /\ reads = <<>>
        ELSE /\ reads = <<AttemptedPath>>
             /\ load_result[1] # Err(MissingManifestDirEnvVar)
             /\ ReadFails =>
                   /\ load_result[1].tag = "Err"
                   /\ load_result[1].err.data.tag = "Load"
                   /\ load_result[1].err.data.load.path = AttemptedPath
                   /\ load_result[1].err.data.load.error =
                         IF AttemptedPath \in DOMAIN fs /\ fs[AttemptedPath].tag = "malformed"
                         THEN "Parse" ELSE "Io"
             /\ ~ReadFails =>
                   load_result[1] = Ok([package |-> fs[AttemptedPath].package])

\* C11 case: with the variable set to proj, a malformed proj/Cargo.toml beside a
\* sound Cargo.toml in the working directory gave a Load error for
\* proj/Cargo.toml.
C11_Witness ==
    /\ load_pc = "done"
    /\ env = Some(<<"proj">>)
    /\ fs[<<"proj", "Cargo.toml">>].tag = "malformed"
    /\ fs[<<"Cargo.toml">>].tag = "manifest"
    /\ reads = <<(<<"proj", "Cargo.toml">>)>>
    /\ load_result[1].tag = "Err"
    /\ load_result[1].err.data.tag = "Load"
    /\ load_result[1].err.data.load.path = <<"proj", "Cargo.toml">>

====
